---- MODULE Spec2Model ----
(***************************************************************************)
(* Model of licenses/management/commands/load_html_files.py: the extractor *)
(* import_by_40_license_html (a pure function of a parsed document, a      *)
(* license code and a language code) and the batch loop of Command.handle  *)
(* that folds every extracted field map against the English one.           *)
(*                                                                         *)
(* Text is a sequence of tokens (one-character or one-word strings), so    *)
(* that str.strip(), concatenation and substring tests are computed.       *)
(* A Python dict is a sequence of <<key, value>> pairs in insertion order. *)
(***************************************************************************)
EXTENDS Integers, Sequences, FiniteSets, TLC

(***************************************************************************)
(* Bounds of the document families.                                        *)
(***************************************************************************)
\* a definitions / downstream list may lack up to this many items
MaxMissingItems == 1
\* a definitions / downstream list may hold up to this many surplus items
MaxExtraItems == 1

(***************************************************************************)
(* Python values.                                                          *)
(***************************************************************************)
\* Python's None, as a value no text equals
None == <<"\\None">>

isinstance_str(v) == v # None

\* the characters str.strip() removes: those str.isspace() holds for; one
\* that a string here cannot hold is written as its Python escape
Whitespace ==
    {" ", "\n", "\t", "\r", "\f", "\\x0b", "\\x1c", "\\x1d", "\\x1e", "\\x1f",
     "\\x85", "\\xa0", "\\u1680", "\\u2000", "\\u2001", "\\u2002", "\\u2003",
     "\\u2004", "\\u2005", "\\u2006", "\\u2007", "\\u2008", "\\u2009", "\\u200a",
     "\\u2028", "\\u2029", "\\u202f", "\\u205f", "\\u3000"}

RECURSIVE lstrip(_)
lstrip(s) ==
    IF s = <<>> THEN <<>>
    ELSE IF Head(s) \in Whitespace THEN lstrip(Tail(s)) ELSE s

RECURSIVE rstrip(_)
rstrip(s) ==
    IF s = <<>> THEN <<>>
    ELSE IF s[Len(s)] \in Whitespace THEN rstrip(SubSeq(s, 1, Len(s) - 1)) ELSE s

\* str.strip()
strip(s) == rstrip(lstrip(s))

\* sub in s, for strings
Contains(s, sub) ==
    \E i \in 1..(Len(s) - Len(sub) + 1) : SubSeq(s, i, i + Len(sub) - 1) = sub

\* s.endswith(suf)
endswith(s, suf) ==
    /\ Len(suf) <= Len(s)
    /\ SubSeq(s, Len(s) - Len(suf) + 1, Len(s)) = suf

RECURSIVE Concat(_)
Concat(ss) == IF ss = <<>> THEN <<>> ELSE Head(ss) \o Concat(Tail(ss))

\* key in d
HasKey(d, k) == \E i \in 1..Len(d) : d[i][1] = k

\* d[k]
Get(d, k) == d[CHOOSE i \in 1..Len(d) : d[i][1] = k][2]

\* d[k] = v: a new key goes last, an existing key keeps its place
SetItem(d, k, v) ==
    IF HasKey(d, k)
    THEN [i \in 1..Len(d) |-> IF d[i][1] = k THEN <<k, v>> ELSE d[i]]
    ELSE Append(d, <<k, v>>)

\* d[k] = v for every <<k, v>> of kvs in turn: each key stands where it was
\* first stored and holds the value stored last
SetItems(d, kvs) ==
    LET all == d \o kvs
        first == {i \in 1..Len(all) : \A j \in 1..(i - 1) : all[j][1] # all[i][1]}
        last(k) == CHOOSE i \in 1..Len(all) :
                      all[i][1] = k /\ \A j \in (i + 1)..Len(all) : all[j][1] # k
        nth(r) == CHOOSE i \in first : Cardinality({j \in first : j <= i}) = r
    IN  IF Cardinality({all[i][1] : i \in 1..Len(all)}) = Len(all) THEN all
        ELSE [r \in 1..Cardinality(first) |->
                <<all[nth(r)][1], all[last(all[nth(r)][1])][2]>>]

Keys(d) == [i \in 1..Len(d) |-> d[i][1]]

KeySet(d) == {d[i][1] : i \in 1..Len(d)}

(***************************************************************************)
(* License codes, as character strings.                                    *)
(***************************************************************************)
Code_by == <<"b", "y">>
Code_by_sa == <<"b", "y", "-", "s", "a">>
Code_by_nc_nd == <<"b", "y", "-", "n", "c", "-", "n", "d">>
Code_by_nc == <<"b", "y", "-", "n", "c">>
Code_by_nc_sa == <<"b", "y", "-", "n", "c", "-", "s", "a">>
Code_by_nd == <<"b", "y", "-", "n", "d">>

LICENSE_CODES == <<Code_by, Code_by_sa, Code_by_nc_nd, Code_by_nc, Code_by_nc_sa, Code_by_nd>>

NC == <<"n", "c">>
ND == <<"n", "d">>
DASH_SA == <<"-", "s", "a">>

RECURSIVE split(_, _)
\* s.split(sep), sep one character
split(s, sep) ==
    IF \A i \in 1..Len(s) : s[i] # sep THEN <<s>>
    ELSE LET i == CHOOSE i \in 1..Len(s) : s[i] = sep /\ \A j \in 1..(i - 1) : s[j] # sep
         IN  <<SubSeq(s, 1, i - 1)>> \o split(SubSeq(s, i + 1, Len(s)), sep)

license_code_parts(license_code) ==
    LET parts == split(license_code, "-") IN {parts[i] : i \in 1..Len(parts)}

\* the flags handle gives the License record
prohibits_commercial_use(license_code) == NC \in license_code_parts(license_code)

permits_derivative_works(license_code) == ND \notin license_code_parts(license_code)

requires_share_alike(license_code) == <<"s", "a">> \in license_code_parts(license_code)

(***************************************************************************)
(* Field schema of section 1 (definitions) and of the downstream list.     *)
(***************************************************************************)
base_definitions ==
    << "adapted_material",
       "copyright_and_similar_rights",
       "effective_technological_measures",
       "exceptions_and_limitations",
       "licensed_material",
       "licensed_rights",
       "licensor",
       "share",
       "sui_generis_database_rights",
       "you" >>

\* a schema under resolution: the list, and whether list.index() has raised
Schema(seq) == [fault |-> FALSE, seq |-> seq]

\* list.index(x): the first position of x
index(seq, x) == CHOOSE i \in 1..Len(seq) : seq[i] = x /\ \A j \in 1..(i - 1) : seq[j] # x

\* insert_after as list.insert(i, what): the new name lands before its anchor
insert_at_anchor(s, after_this, what_to_insert) ==
    IF s.fault THEN s
    ELSE IF \A i \in 1..Len(s.seq) : s.seq[i] # after_this
    THEN [fault |-> TRUE, seq |-> s.seq]
    ELSE LET i == index(s.seq, after_this)
         IN  [fault |-> FALSE,
              seq |-> SubSeq(s.seq, 1, i - 1) \o <<what_to_insert>>
                      \o SubSeq(s.seq, i, Len(s.seq))]

\* list.insert(i + 1, what) with i the 0-based index of after_this;
\* ValueError when after_this is not in the list
insert_after(s, after_this, what_to_insert) ==
    IF s.fault THEN s
    ELSE IF \A i \in 1..Len(s.seq) : s.seq[i] # after_this
    THEN [fault |-> TRUE, seq |-> s.seq]
    ELSE LET i == index(s.seq, after_this)
         IN  [fault |-> FALSE,
              seq |-> SubSeq(s.seq, 1, i) \o <<what_to_insert>>
                      \o SubSeq(s.seq, i + 1, Len(s.seq))]

\* expected_definitions with the "noncommercial" rule of by-nc-sa left out
expected_definitions_without_noncommercial(license_code, language_code) ==
    LET s0 == Schema(base_definitions) IN
    IF license_code = Code_by_sa THEN
        LET s1 == insert_after(s0, "adapted_material", "adapters_license")
            s2 == insert_after(s1, "adapters_license", "by_sa_compatible_license")
            s3 == insert_after(s2, "exceptions_and_limitations", "license_elements_sa")
        IN  IF language_code = "pt" THEN insert_after(s3, "you", "you2") ELSE s3
    ELSE IF license_code = Code_by THEN
        insert_after(s0, "adapted_material", "adapters_license")
    ELSE IF license_code = Code_by_nc THEN
        LET s1 == insert_after(s0, "adapted_material", "adapters_license")
        IN  insert_after(s1, "licensor", "noncommercial")
    ELSE IF license_code = Code_by_nd THEN
        s0
    ELSE IF license_code = Code_by_nc_nd THEN
        insert_after(s0, "licensor", "noncommercial")
    ELSE IF license_code = Code_by_nc_sa THEN
        LET s1 == insert_after(s0, "adapted_material", "adapters_license")
            s2 == insert_after(s1, "exceptions_and_limitations", "license_elements_nc_sa")
        IN  insert_after(s2, "adapters_license", "by_nc_sa_compatible_license")
    ELSE s0

expected_definitions(license_code, language_code) ==
    LET s0 == Schema(base_definitions) IN
    IF license_code = Code_by_sa THEN
        LET s1 == insert_after(s0, "adapted_material", "adapters_license")
            s2 == insert_after(s1, "adapters_license", "by_sa_compatible_license")
            s3 == insert_after(s2, "exceptions_and_limitations", "license_elements_sa")
        IN  IF language_code = "pt" THEN insert_after(s3, "you", "you2") ELSE s3
    ELSE IF license_code = Code_by THEN
        insert_after(s0, "adapted_material", "adapters_license")
    ELSE IF license_code = Code_by_nc THEN
        LET s1 == insert_after(s0, "adapted_material", "adapters_license")
        IN  insert_after(s1, "licensor", "noncommercial")
    ELSE IF license_code = Code_by_nd THEN
        s0
    ELSE IF license_code = Code_by_nc_nd THEN
        insert_after(s0, "licensor", "noncommercial")
    ELSE IF license_code = Code_by_nc_sa THEN
        LET s1 == insert_after(s0, "adapted_material", "adapters_license")
            s2 == insert_after(s1, "exceptions_and_limitations", "license_elements_nc_sa")
            s3 == insert_after(s2, "adapters_license", "by_nc_sa_compatible_license")
        IN  insert_after(s3, "licensor", "noncommercial")
    ELSE s0

\* the calls with the by-sa branch naming by_sa_compatible_license before
\* the adapters_license it is anchored on
insertion_rules_compatible_first(license_code, language_code) ==
    IF license_code = Code_by_sa THEN
        << <<"adapters_license", "by_sa_compatible_license">>,
           <<"adapted_material", "adapters_license">>,
           <<"exceptions_and_limitations", "license_elements_sa">> >>
        \o (IF language_code = "pt" THEN << <<"you", "you2">> >> ELSE <<>>)
    ELSE IF license_code = Code_by THEN
        << <<"adapted_material", "adapters_license">> >>
    ELSE IF license_code = Code_by_nc THEN
        << <<"adapted_material", "adapters_license">>,
           <<"licensor", "noncommercial">> >>
    ELSE IF license_code = Code_by_nc_nd THEN
        << <<"licensor", "noncommercial">> >>
    ELSE IF license_code = Code_by_nc_sa THEN
        << <<"adapted_material", "adapters_license">>,
           <<"exceptions_and_limitations", "license_elements_nc_sa">>,
           <<"adapters_license", "by_nc_sa_compatible_license">>,
           <<"licensor", "noncommercial">> >>
    ELSE <<>>

\* the calls insert_after(after_this, what_to_insert) a license code and
\* language make, in the order they are written
insertion_rules(license_code, language_code) ==
    IF license_code = Code_by_sa THEN
        << <<"adapted_material", "adapters_license">>,
           <<"adapters_license", "by_sa_compatible_license">>,
           <<"exceptions_and_limitations", "license_elements_sa">> >>
        \o (IF language_code = "pt" THEN << <<"you", "you2">> >> ELSE <<>>)
    ELSE IF license_code = Code_by THEN
        << <<"adapted_material", "adapters_license">> >>
    ELSE IF license_code = Code_by_nc THEN
        << <<"adapted_material", "adapters_license">>,
           <<"licensor", "noncommercial">> >>
    ELSE IF license_code = Code_by_nd THEN
        <<>>
    ELSE IF license_code = Code_by_nc_nd THEN
        << <<"licensor", "noncommercial">> >>
    ELSE IF license_code = Code_by_nc_sa THEN
        << <<"adapted_material", "adapters_license">>,
           <<"exceptions_and_limitations", "license_elements_nc_sa">>,
           <<"adapters_license", "by_nc_sa_compatible_license">>,
           <<"licensor", "noncommercial">> >>
    ELSE <<>>

expected_downstreams(license_code) ==
    IF license_code \in {Code_by_sa, Code_by_nc_sa}
    THEN <<"offer", "adapted_material", "no_restrictions">>
    ELSE <<"offer", "no_restrictions">>

(***************************************************************************)
(* Parsed documents.  A node is a text node (name "", Python's None) or a   *)
(* tag with an id and children.                                            *)
(***************************************************************************)
TextNode(t) == [name |-> "", id |-> "", text |-> t, kids |-> <<>>]

TagNode(name, id, kids) == [name |-> name, id |-> id, text |-> <<>>, kids |-> kids]

\* isinstance(item, Tag)
IsTag(node) == node.name # ""

RECURSIVE str(_)
\* str(node): the node's markup
str(node) ==
    IF ~IsTag(node) THEN node.text
    ELSE <<"<" \o node.name \o (IF node.id = "" THEN "" ELSE " id=" \o node.id) \o ">">>
         \o Concat([i \in 1..Len(node.kids) |-> str(node.kids[i])])
         \o <<"</" \o node.name \o ">">>

RECURSIVE get_text(_)
\* node.get_text(): all descendant text
get_text(node) ==
    IF ~IsTag(node) THEN node.text
    ELSE Concat([i \in 1..Len(node.kids) |-> get_text(node.kids[i])])

RECURSIVE string(_)
\* node.string: the text of a text node, the .string of an only child, else None
string(node) ==
    IF ~IsTag(node) THEN node.text
    ELSE IF Len(node.kids) = 1 THEN string(node.kids[1])
    ELSE None

RECURSIVE Descendants(_)
\* the tags below a list of children, in document order
Descendants(kids) ==
    IF kids = <<>> THEN <<>>
    ELSE (IF IsTag(Head(kids)) THEN <<Head(kids)>> \o Descendants(Head(kids).kids) ELSE <<>>)
         \o Descendants(Tail(kids))

\* bool(tag.p): whether some descendant tag has that name
has_tag(kids, name) ==
    LET d == Descendants(kids) IN \E i \in 1..Len(d) : d[i].name = name

\* tag.p: the first descendant tag with that name
first_tag(kids, name) ==
    LET d == Descendants(kids)
        hits == {i \in 1..Len(d) : d[i].name = name}
    IN  d[CHOOSE i \in hits : \A j \in hits : i <= j]

\* the text a document holds at an anchor
Content(doc, a) ==
    IF a \in doc.empty THEN <<>>
    ELSE IF doc.pad THEN <<"\n", doc.words \o ":" \o a, " ">>
    ELSE <<doc.words \o ":" \o a>>

\* soup.find(id=a).string
string_at(doc, a) ==
    IF a \in doc.empty \/ a \in doc.multi THEN None ELSE Content(doc, a)

\* str(soup.find(id=a)): "None" when the anchor is absent
str_at(doc, a) ==
    IF a \in doc.absent THEN <<"None">> ELSE <<"<li id=" \o a \o ">">> \o Content(doc, a) \o <<"</li>">>

(***************************************************************************)
(* licenses.bs_utils, by its contract.                                     *)
(***************************************************************************)
inner_html(doc, a) == Content(doc, a)

nested_text(doc, a) == Content(doc, a)

text_up_to(doc, a, boundary) == Content(doc, a \o "<" \o boundary)

name_and_text(doc, a) ==
    [name |-> Content(doc, a \o ".strong"), text |-> Content(doc, a \o ".text")]

\* raw_html.replace("<b>", "<strong>") ... .replace("<B>", "<strong>")
normalise_emphasis(tag) == IF tag \in {"b", "B"} THEN "strong" ELSE tag

(***************************************************************************)
(* The sections of import_by_40_license_html, in their order.  Each gives  *)
(* the exception it raises ("" for none) and the items it stores.          *)
(***************************************************************************)
Raise(e) == [err |-> e, items |-> <<>>]

Items(kvs) == [err |-> "", items |-> kvs]

\* soup.find(id=a).x on an absent anchor raises AttributeError
Need(doc, anchors, kvs) ==
    IF anchors \cap doc.absent # {} THEN Raise("AttributeError") ELSE Items(kvs)

\* checks is a list of <<anchors, exception>> in the order the statements
\* run: the first absent anchor decides which exception is raised
NeedInOrder(doc, checks, kvs) ==
    LET bad == {i \in 1..Len(checks) : checks[i][1] \cap doc.absent # {}} IN
    IF bad = {} THEN Items(kvs)
    ELSE Raise(checks[CHOOSE i \in bad : \A j \in bad : i <= j][2])

SecTitles(doc) ==
    Need(doc, {"deed-main-content", "deed-license"},
         << <<"license_medium", inner_html(doc, "deed-license.h2")>>,
            <<"license_long", inner_html(doc, "deed-main-content.h3")>>,
            <<"license_intro", inner_html(doc, "deed-main-content.h3+p")>> >>)

\* the positional loop over the definitions list
definition_items(doc, schema) ==
    [i \in 1..doc.n_defs |->
        LET thing == name_and_text(doc, "s1.li" \o ToString(i))
        IN  << "s1_definitions_" \o schema[i],
               <<"*">> \o thing.name \o <<"*", " ">> \o thing.text >>]

SecDefinitions(doc, license_code, language_code) ==
    LET s == expected_definitions(license_code, language_code) IN
    IF s.fault THEN Raise("ValueError")
    ELSE IF "s1" \in doc.absent THEN Raise("AttributeError")
    ELSE IF doc.n_defs > Len(s.seq) THEN Raise("IndexError")
    ELSE Items(<< <<"s1_definitions_title", inner_html(doc, "s1.strong")>> >>
               \o definition_items(doc, s.seq))

SecScope(doc) ==
    IF {"s2", "s2a"} \cap doc.absent # {} THEN Raise("AttributeError")
    ELSE LET tag == normalise_emphasis(doc.s2a_tag) IN
         IF tag = "strong"
         THEN Items(<< <<"s2_scope", inner_html(doc, "s2.strong")>>,
                       <<"s2a_license_grant_title", inner_html(doc, "s2a.strong")>> >>)
         ELSE IF tag = "b+attr"
         THEN Items(<< <<"s2_scope", inner_html(doc, "s2.strong")>>,
                       <<"s2a_license_grant_title", inner_html(doc, "s2a.b")>> >>)
         ELSE Raise("SystemExit")

\* the field name the content of s2a1A goes to
share_field(license_code) ==
    IF Contains(license_code, NC)
    THEN "s2a_license_grant_share_nc"
    ELSE "s2a_license_grant_share"

\* adapted_field with the test for "nc" alone tried first
adapted_field_nc_first(license_code) ==
    IF Contains(license_code, NC)
    THEN "s2a_license_grant_adapted_nc"
    ELSE IF Contains(license_code, NC) /\ Contains(license_code, ND)
    THEN "s2a_license_grant_adapted_nc_nd"
    ELSE IF Contains(license_code, ND)
    THEN "s2a_license_grant_adapted_nd"
    ELSE "s2a_license_grant_adapted"

\* the field name the content of s2a1B goes to
adapted_field(license_code) ==
    IF Contains(license_code, NC) /\ Contains(license_code, ND)
    THEN "s2a_license_grant_adapted_nc_nd"
    ELSE IF Contains(license_code, NC)
    THEN "s2a_license_grant_adapted_nc"
    ELSE IF Contains(license_code, ND)
    THEN "s2a_license_grant_adapted_nd"
    ELSE "s2a_license_grant_adapted"

\* list(soup.find(id=a)) on an absent anchor raises TypeError
SecGrant(doc, license_code) ==
    NeedInOrder(doc, << <<{"s2a1", "s2a1A", "s2a1B"}, "TypeError">> >>,
         << <<"s2a_license_grant_intro", strip(Content(doc, "s2a1[0]"))>>,
            <<share_field(license_code), strip(Content(doc, "s2a1A[0]"))>>,
            <<adapted_field(license_code), strip(Content(doc, "s2a1B[0]"))>> >>)

SecGrantClauses(doc) ==
    LET e == name_and_text(doc, "s2a2")
        t == name_and_text(doc, "s2a3")
        m == name_and_text(doc, "s2a4")
    IN  Need(doc, {"s2a2", "s2a3", "s2a4", "s2a5"},
         << <<"s2a2_license_grant_exceptions_name", e.name>>,
            <<"s2a2_license_grant_exceptions_text", e.text>>,
            <<"s2a3_license_grant_term_name", t.name>>,
            <<"s2a3_license_grant_term_text", t.text>>,
            <<"s2a4_license_grant_media_name", m.name>>,
            <<"s2a4_license_grant_media_text", m.text>>,
            <<"s2a5_license_grant_downstream_title",
              <<"<strong>">> \o Content(doc, "s2a5.strong") \o <<"</strong>">> >> >>)

\* the positional loop over the top-level items of the downstream list
downstream_items(doc, schema) ==
    Concat([i \in 1..doc.n_downstream |->
        LET thing == name_and_text(doc, "s2a5.li" \o ToString(i))
        IN  << <<"s2a5_license_grant_downstream_" \o schema[i] \o "_name", thing.name>>,
               <<"s2a5_license_grant_downstream_" \o schema[i] \o "_text", thing.text>> >>])

SecDownstream(doc, license_code) ==
    LET schema == expected_downstreams(license_code) IN
    IF doc.n_downstream > Len(schema) THEN Raise("IndexError")
    ELSE Items(downstream_items(doc, schema))

SecOtherRights(doc, license_code) ==
    LET nt == name_and_text(doc, "s2a6") IN
    Need(doc, {"s2a6", "s2b"},
         << <<"s2a6_license_grant_no_endorsement_name", nt.name>>,
            <<"s2a6_license_grant_no_endorsement_text", nt.text>>,
            <<"s2b_other_rights_title", text_up_to(doc, "s2b", "ol")>>,
            <<"s2b_other_rights_moral", str_at(doc, "s2b.li1")>>,
            <<"s2b_other_rights_patent", str_at(doc, "s2b.li2")>>,
            <<IF Contains(license_code, NC)
              THEN "s2b_other_rights_waive_nc"
              ELSE "s2b_other_rights_waive_non_nc", str_at(doc, "s2b.li3")>> >>)

SecConditions(doc, license_code) ==
    NeedInOrder(doc,
         << <<{"s3", "s3a", "s3a1", "s3a1A", "s3a1Ai"}, "AttributeError">>,
            <<{"s3a2", "s3a3"}, "TypeError">>,
            <<IF endswith(license_code, DASH_SA) THEN {"s3b"} ELSE {}, "AttributeError">> >>,
         << <<"s3_conditions_title", nested_text(doc, "s3")>>,
            <<"s3_conditions_intro", nested_text(doc, "s3+p")>>,
            <<"s3_conditions_attribution", text_up_to(doc, "s3a", "ol")>>,
            <<IF Contains(license_code, ND)
              THEN "s3_conditions_if_you_share_nd"
              ELSE "s3_conditions_if_you_share_non_nd", text_up_to(doc, "s3a1", "ol")>>,
            <<"s3_conditions_retain_the_following", text_up_to(doc, "s3a1A", "ol")>>,
            <<"s3_conditions_identification", nested_text(doc, "s3a1Ai")>>,
            <<"s3_conditions_copyright", str_at(doc, "s3a1Aii")>>,
            <<"s3_conditions_license", str_at(doc, "s3a1Aiii")>>,
            <<"s3_conditions_disclaimer", str_at(doc, "s3a1Aiv")>>,
            <<"s3_conditions_link", str_at(doc, "s3a1Av")>>,
            <<"s3_conditions_modified", str_at(doc, "s3a1B")>>,
            <<"s3_conditions_licensed", str_at(doc, "s3a1C")>>,
            <<"s3_conditions_satisfy", string_at(doc, "s3a2[0]")>>,
            <<"s3_conditions_remove", string_at(doc, "s3a3[0]")>> >>
         \o (IF endswith(license_code, DASH_SA)
             THEN << <<"sharealike_name", nested_text(doc, "s3b.strong")>>,
                     <<"sharealike_intro", nested_text(doc, "s3b.p")>> >>
             ELSE <<>>))

\* positions in the children of s4's parent of the <p> siblings after s4
next_p_siblings(doc) ==
    LET ch == doc.s4_parent
        at == {j \in 1..Len(ch) : ch[j].id = "s4"}
    IN  {j \in 1..Len(ch) : /\ ch[j].name = "p"
                             /\ \E a \in at : a < j /\ \A b \in at : a <= b}

\* soup.find(id="s4").find_next_sibling("p")
find_next_sibling_p(doc) ==
    LET at == next_p_siblings(doc)
    IN  doc.s4_parent[CHOOSE j \in at : \A k \in at : j <= k]

\* .string of a child of s4's parent: a child the document names (by its
\* id, or as the paragraph after s4) holds the document's content for it
sibling_string(doc, node) ==
    IF node.id # "" THEN string_at(doc, node.id)
    ELSE IF node = TagNode("p", "", <<TextNode(<<doc.words \o ":" \o "s4+p">>)>>)
    THEN string_at(doc, "s4+p")
    ELSE string(node)

SecDatabaseRights(doc, license_code) ==
    IF "s4" \notin doc.absent /\ next_p_siblings(doc) = {} THEN Raise("AttributeError") ELSE
    Need(doc, {"s4", "s4b", "s4c"}
              \cup (IF Contains(license_code, NC) = Contains(license_code, ND)
                    THEN {"s4a"} ELSE {}),
         << <<"s4_sui_generics_database_rights_titles", nested_text(doc, "s4")>>,
            <<"s4_sui_generics_database_rights_intro",
              sibling_string(doc, find_next_sibling_p(doc))>>,
            IF Contains(license_code, NC) /\ Contains(license_code, ND)
            THEN <<"s4_sui_generics_database_rights_extract_reuse_nc_nd",
                   nested_text(doc, "s4a")>>
            ELSE IF Contains(license_code, NC)
            THEN <<"s4_sui_generics_database_rights_extract_reuse_nc", str_at(doc, "s4a")>>
            ELSE IF Contains(license_code, ND)
            THEN <<"s4_sui_generics_database_rights_extract_reuse_nd", str_at(doc, "s4a")>>
            ELSE <<"s4_sui_generics_database_rights_extract_reuse_non_nc_non_nd",
                   Content(doc, "s4a")>>,
            <<IF endswith(license_code, DASH_SA)
              THEN "s4_sui_generics_database_rights_adapted_material_sa"
              ELSE "s4_sui_generics_database_rights_adapted_material_non-sa",
              Content(doc, "s4b")>>,
            <<"s4_sui_generics_database_rights_comply_s3a", Content(doc, "s4c")>> >>)

(***************************************************************************)
(* The scan for the text that follows the list after s4.                   *)
(***************************************************************************)
scan_start == [s4_seen |-> FALSE, take_next |-> FALSE, done |-> FALSE, value |-> None]

\* the loop body taking any <ol> for the list, seen s4 or not
scan_step_any_list(st, item) ==
    IF st.done THEN st
    ELSE IF st.take_next
    THEN [st EXCEPT !.value = string(item), !.done = TRUE]
    ELSE IF item.name = "ol"
    THEN [st EXCEPT !.s4_seen = TRUE, !.take_next = TRUE]
    ELSE IF IsTag(item) /\ item.id = "s4" THEN [st EXCEPT !.s4_seen = TRUE]
    ELSE st

\* one pass of the loop body over a child of s4's parent
scan_step(st, item) ==
    IF st.done THEN st
    ELSE IF st.take_next
    THEN [st EXCEPT !.value = string(item), !.done = TRUE]
    ELSE IF ~st.s4_seen
    THEN IF IsTag(item) /\ item.id = "s4" THEN [st EXCEPT !.s4_seen = TRUE] ELSE st
    ELSE IF ~st.take_next /\ item.name = "ol"
    THEN [st EXCEPT !.take_next = TRUE]
    ELSE st

RECURSIVE scan(_, _)
scan(st, children) ==
    IF children = <<>> THEN st
    ELSE scan(scan_step(st, Head(children)), Tail(children))

SecPostscript(doc) ==
    LET st == scan(scan_start, doc.s4_parent) IN
    IF st.done
    THEN Items(<< <<"s4_sui_generics_database_rights_postscript", st.value>> >>)
    ELSE Items(<<>>)

SecDisclaimer(doc) ==
    Need(doc, {"s5", "s5a", "s5b", "s5c"},
         << <<"s5_disclaimer_title", string_at(doc, "s5")>>,
            <<"s5_a", string_at(doc, "s5a")>>,
            <<"s5_b", string_at(doc, "s5b")>>,
            <<"s5_c", string_at(doc, "s5c")>> >>)

RECURSIVE up_to_ol(_)
\* the for loop over s6b's children: their markup, up to the first "ol"
up_to_ol(children) ==
    IF children = <<>> THEN <<>>
    ELSE IF Head(children).name = "ol" THEN <<>>
    ELSE str(Head(children)) \o up_to_ol(Tail(children))

\* messages["s6_termination_reinstates_where"]
reinstates_where(s6b) ==
    IF has_tag(s6b, "p")
    THEN get_text(first_tag(s6b, "p"))
    ELSE up_to_ol(s6b)

\* children_of_s6b[4:7], joined and stripped
reinstates_postscript(s6b) ==
    strip(Concat([i \in 1..Len(s6b) |-> IF i \in 5..7 THEN str(s6b[i]) ELSE <<>>]))

SecTermination(doc) ==
    Need(doc, {"s6", "s6a", "s6b", "s6b1", "s6b2"},
         << <<"s6_termination_title", nested_text(doc, "s6")>>,
            <<"s6_termination_applies", nested_text(doc, "s6a")>>,
            <<"s6_termination_reinstates_where", reinstates_where(doc.s6b)>>,
            <<"s6_termination_reinstates_automatically", Content(doc, "s6b1")>>,
            <<"s6_termination_reinstates_express", Content(doc, "s6b2")>>,
            <<"s6_termination_reinstates_postscript", reinstates_postscript(doc.s6b)>> >>)

SecOtherTerms(doc) ==
    Need(doc, {"s7", "s7a", "s7b", "s8", "s8a", "s8b", "s8c", "s8d"},
         << <<"s7_other_terms_title", string_at(doc, "s7")>>,
            <<"s7_a", string_at(doc, "s7a")>>,
            <<"s7_b", string_at(doc, "s7b")>>,
            <<"s8_interpretation_title", string_at(doc, "s8")>>,
            <<"s8a", inner_html(doc, "s8a")>>,
            <<"s8b", inner_html(doc, "s8b")>>,
            <<"s8c", inner_html(doc, "s8c")>>,
            <<"s8d", inner_html(doc, "s8d")>> >>)

\* a validation that passes everything
validate_nothing(messages) == TRUE

\* licenses.utils.validate_dictionary_is_all_text, by its contract: every
\* value is non-empty text
validate_dictionary_is_all_text(messages) ==
    \A i \in 1..Len(messages) : isinstance_str(messages[i][2]) /\ messages[i][2] # <<>>

Sections(doc, license_code, language_code) ==
    << SecTitles(doc),
       SecDefinitions(doc, license_code, language_code),
       SecScope(doc),
       SecGrant(doc, license_code),
       SecGrantClauses(doc),
       SecDownstream(doc, license_code),
       SecOtherRights(doc, license_code),
       SecConditions(doc, license_code),
       SecDatabaseRights(doc, license_code),
       SecPostscript(doc),
       SecDisclaimer(doc),
       SecTermination(doc),
       SecOtherTerms(doc) >>

\* import_by_40_license_html without its closing validation
import_without_validation(content, license_code, language_code) ==
    LET secs == Sections(content, license_code, language_code)
        bad == {i \in 1..Len(secs) : secs[i].err # ""}
        messages == SetItems(<<>>, Concat([i \in 1..Len(secs) |-> secs[i].items]))
    IN  IF bad # {}
        THEN [err |-> secs[CHOOSE i \in bad : \A j \in bad : i <= j].err, messages |-> <<>>]
        ELSE [err |-> "", messages |-> messages]

\* the result of a call: the exception raised ("" for none) and the dict returned
import_by_40_license_html(content, license_code, language_code) ==
    LET secs == Sections(content, license_code, language_code)
        bad == {i \in 1..Len(secs) : secs[i].err # ""}
        messages == SetItems(<<>>, Concat([i \in 1..Len(secs) |-> secs[i].items]))
    IN  IF bad # {}
        THEN [err |-> secs[CHOOSE i \in bad : \A j \in bad : i <= j].err, messages |-> <<>>]
        ELSE IF ~validate_dictionary_is_all_text(messages)
        THEN [err |-> "IncompleteExtraction", messages |-> <<>>]
        ELSE [err |-> "", messages |-> messages]

(***************************************************************************)
(* Catalog assembly: the loop of handle over messages_text.items().        *)
(***************************************************************************)
\* message_key as english_text.get(internal_key, "")
message_key_or_empty(internal_key, translation, english_text) ==
    IF HasKey(english_text, internal_key)
    THEN Get(english_text, internal_key)
    ELSE <<>>

message_key(internal_key, translation, english_text) ==
    IF HasKey(english_text, internal_key)
    THEN Get(english_text, internal_key)
    ELSE translation

\* message_value with the test for English left out
message_value_always_translation(language_code, translation) == translation

message_value(language_code, translation) ==
    IF language_code = "en" THEN <<>> ELSE translation

\* po_entries without the strip() of msgstr
po_entries_unstripped(messages_text, english_text, language_code) ==
    [i \in 1..Len(messages_text) |->
        [msgid |-> message_key(messages_text[i][1], messages_text[i][2], english_text),
         msgstr |-> message_value(language_code, messages_text[i][2])]]

\* the entries appended to the POFile, in order
po_entries(messages_text, english_text, language_code) ==
    [i \in 1..Len(messages_text) |->
        [msgid |-> message_key(messages_text[i][1], messages_text[i][2], english_text),
         msgstr |-> strip(message_value(language_code, messages_text[i][2]))]]

(***************************************************************************)
(* Document families.                                                      *)
(***************************************************************************)
Word(w, a) == <<w \o ":" \o a>>

NL == TextNode(<<"\n">>)

BR == TagNode("br", "", <<>>)

P(t) == TagNode("p", "", <<TextNode(t)>>)

Anchor(w, a) == TagNode("p", a, <<TextNode(Word(w, a))>>)

OL(w, a, b) == TagNode("ol", "", <<TagNode("li", a, <<TextNode(Word(w, a))>>),
                                   TagNode("li", b, <<TextNode(Word(w, b))>>)>>)

\* children of the parent of s4
S4Good(w) ==
    <<NL, Anchor(w, "s4"), NL, P(Word(w, "s4+p")), NL, OL(w, "s4a", "s4b"),
      TextNode(<<"\n">> \o Word(w, "s4.post") \o <<"\n">>), Anchor(w, "s5")>>

S4ListBefore(w) ==
    <<OL(w, "s3a", "s3b"), TextNode(Word(w, "s3.post")), Anchor(w, "s4"),
      OL(w, "s4a", "s4b"), TextNode(Word(w, "s4.post")), Anchor(w, "s5")>>

S4TwoLists(w) ==
    <<Anchor(w, "s4"), OL(w, "s4a", "s4b"), TextNode(Word(w, "s4.post")),
      OL(w, "s5a", "s5b"), TextNode(Word(w, "s5.post"))>>

S4Wrapped(w) ==
    <<Anchor(w, "s4"), OL(w, "s4a", "s4b"), P(Word(w, "s4.post")), Anchor(w, "s5")>>

S4Markup(w) ==
    <<Anchor(w, "s4"), OL(w, "s4a", "s4b"),
      TagNode("p", "", <<TextNode(Word(w, "s4.post")), BR, TextNode(Word(w, "more"))>>)>>

S4NoList(w) ==
    <<NL, Anchor(w, "s4"), P(Word(w, "s4+p")), TextNode(Word(w, "s4.post")),
      Anchor(w, "s5")>>

S4ListLast(w) ==
    <<NL, Anchor(w, "s4"), P(Word(w, "s4+p")), OL(w, "s4a", "s4b")>>

\* two lists in a row after s4
S4ListThenList(w) ==
    <<Anchor(w, "s4"), NL, OL(w, "s4a", "s4b"), OL(w, "s5a", "s5b"),
      TextNode(Word(w, "s5.post"))>>

\* s4 is not among the children
S4NoAnchor(w) ==
    <<NL, OL(w, "s4a", "s4b"), TextNode(Word(w, "s4.post")), Anchor(w, "s5")>>

S4Shapes(w) ==
    {S4Good(w), S4ListBefore(w), S4TwoLists(w), S4Wrapped(w), S4Markup(w),
     S4NoList(w), S4ListLast(w)}

\* children of s6b
S6bWrapped(w) ==
    <<NL, P(Word(w, "s6b.intro")), NL, OL(w, "s6b1", "s6b2"), NL,
      P(Word(w, "s6b.post")), NL>>

S6bBare(w) ==
    <<TextNode(Word(w, "s6b.intro")), BR, OL(w, "s6b1", "s6b2"), BR,
      TextNode(Word(w, "s6b.post"))>>

S6bBareNested(w) ==
    <<TextNode(Word(w, "s6b.intro")), BR,
      TagNode("ol", "", <<TagNode("li", "s6b1", <<P(Word(w, "s6b1"))>>),
                          TagNode("li", "s6b2", <<P(Word(w, "s6b2"))>>)>>), BR,
      TextNode(Word(w, "s6b.post"))>>

S6bBareThenP(w) ==
    <<TextNode(Word(w, "s6b.intro")), BR, OL(w, "s6b1", "s6b2"), BR,
      P(Word(w, "s6b.post"))>>

S6bWrappedNested(w) ==
    <<NL, P(Word(w, "s6b.intro")), NL,
      TagNode("ol", "", <<TagNode("li", "s6b1", <<P(Word(w, "s6b1"))>>),
                          TagNode("li", "s6b2", <<P(Word(w, "s6b2"))>>)>>), NL,
      P(Word(w, "s6b.post")), NL>>

S6bShapes(w) ==
    {S6bWrapped(w), S6bBare(w), S6bBareNested(w), S6bBareThenP(w), S6bWrappedNested(w)}

\* list lengths near the length the English schema expects
ItemCounts(n) ==
    {k \in (n - MaxMissingItems)..(n + MaxExtraItems) : k >= 0}

\* the well-formed document of a license code, in the words of language w
BaseDoc(license_code, w) ==
    [words |-> w, pad |-> TRUE, absent |-> {}, empty |-> {}, multi |-> {},
     s2a_tag |-> "strong",
     n_defs |-> Len(expected_definitions(license_code, "en").seq),
     n_downstream |-> Len(expected_downstreams(license_code)),
     s4_parent |-> S4Good(w),
     s6b |-> S6bWrapped(w)]

\* documents whose lists are too short or too long, or with a value that
\* is empty or not a string
ListDocs(license_code, w) ==
    LET b == BaseDoc(license_code, w) IN
       {[b EXCEPT !.n_defs = n] : n \in ItemCounts(b.n_defs)}
    \cup {[b EXCEPT !.n_downstream = n] : n \in ItemCounts(b.n_downstream)}
    \cup {[b EXCEPT !.empty = {"s8a"}], [b EXCEPT !.multi = {"s7"}]}

\* documents that depart from the well-formed one in one respect
Docs(license_code, w) ==
    LET b == BaseDoc(license_code, w) IN
       ListDocs(license_code, w)
    \cup {[b EXCEPT !.s4_parent = c] : c \in S4Shapes(w)}
    \cup {[b EXCEPT !.s6b = c] : c \in S6bShapes(w)}
    \cup {[b EXCEPT !.pad = FALSE]}
    \cup {[b EXCEPT !.absent = {a}] : a \in {"s5", "s3a1B", "s2a1", "s3a2"}}
    \cup {[b EXCEPT !.s2a_tag = t] : t \in {"b", "B", "b+attr", "none"}}

(***************************************************************************)
(* State.                                                                  *)
(***************************************************************************)
VARIABLES
    input_directory,          \* the names os.listdir(input_directory) gives
    html_filenames,           \* the by*.html names among them, sorted
    licenses,                 \* the License records of the store
    legalcodes,               \* the LegalCode records of the store
    catalog_load,             \* what gettext.Catalog(...) raises in this installation, "" for nothing
    language_codes,           \* the language codes the record store lists, sorted
    loop_languages,           \* the list the outer loop of handle walks
    li,                       \* position of the outer loop (language)
    ci,                       \* position of the inner loop (license code)
    pc,                       \* where handle (or the single call) stands
    messages_text,            \* the field map of the current document
    english_by_license_code,  \* the English field maps kept, a dict
    english_text,             \* the English field map read for the current document
    pofile,                   \* the catalog built last
    saved,                    \* the <<license code, language>> pairs whose catalog is written
    error,                    \* the exception that ended the run, "" for none
    odd_code,                 \* the license code whose documents may be irregular
    arg,                      \* the arguments of a single call of the extractor
    ret,                      \* what that call gave
    resolving,                \* a schema resolution: its arguments, list, rules fired
    scanning                  \* a scan after s4: the children, position, flags

vars == <<input_directory, html_filenames, licenses, legalcodes, catalog_load, language_codes, loop_languages, li, ci, pc, messages_text,
          english_by_license_code, english_text, pofile, saved, error, odd_code,
          arg, ret, resolving, scanning>>

\* a POFile: its metadata (the domain is the license's, "Language") and entries
POFile(license_code, language_code, entries) ==
    [license_code |-> license_code, language |-> language_code, entries |-> entries]

NoPOFile == POFile(<<>>, "", <<>>)

NoArg == [content |-> BaseDoc(Code_by, "en"), license_code |-> <<>>, language_code |-> ""]

NoRet == [err |-> "unset", messages |-> <<>>]

NoResolving == [license_code |-> <<>>, language_code |-> "", s |-> Schema(<<>>), fired |-> 0]

NoScanning == [children |-> <<>>, pos |-> 0, st |-> scan_start]

\* the sorted language lists of a directory
LanguageLists ==
    {<< <<"e", "n">> >>, << <<"e", "n">>, <<"p", "t">> >>,
     << <<"d", "e">>, <<"e", "n">>, <<"p", "t">> >>, << <<"d", "e">>, <<"p", "t">> >>}

\* version = "4.0"
version == "4.0"

\* the characters of the file names, in code point order
Alphabet ==
    <<"-", ".", "0", "1", "3", "4", "A", "D", "E", "M", "R", "_", "a", "b", "c", "d",
      "e", "f", "h", "l", "m", "n", "o", "p", "r", "s", "t", "x", "y", "z">>

\* place of a character in the order of the code points
rank(c) == CHOOSE i \in 1..Len(Alphabet) : Alphabet[i] = c

\* a < b for strings
less(a, b) ==
    LET n == IF Len(a) < Len(b) THEN Len(a) ELSE Len(b)
        d == {i \in 1..n : a[i] # b[i]}
    IN  IF d = {} THEN Len(a) < Len(b)
        ELSE LET i == CHOOSE i \in d : \A j \in d : i <= j
             IN  rank(a[i]) < rank(b[i])

RECURSIVE sorted(_)
\* sorted(names), names without repeats
sorted(names) ==
    IF names = {} THEN <<>>
    ELSE LET m == CHOOSE x \in names : \A y \in names \ {x} : less(x, y)
         IN  <<m>> \o sorted(names \ {m})

DOT_HTML == <<".", "h", "t", "m", "l">>

RECURSIVE joined(_)
\* "".join(chars)
joined(chars) == IF chars = <<>> THEN "" ELSE Head(chars) \o joined(Tail(chars))

\* s.startswith(prefix)
startswith(s, prefix) == Len(s) >= Len(prefix) /\ SubSeq(s, 1, Len(prefix)) = prefix

\* sorted([f for f in os.listdir(input_directory)
\*         if f.startswith("by") and f.endswith(".html")])
listed_html_filenames(names) ==
    sorted({f \in names : startswith(f, Code_by) /\ endswith(f, DOT_HTML)})

\* licenses.utils.parse_legalcode_filename on <code>_<version>.html and
\* <code>_<version>_<language>.html: no language in the name gives none
parse_legalcode_filename(filename) ==
    LET parts == split(SubSeq(filename, 1, Len(filename) - Len(DOT_HTML)), "_") IN
    [license_code |-> parts[1],
     version |-> joined(parts[2]),
     language_code |-> IF Len(parts) >= 3 THEN joined(parts[3]) ELSE ""]

\* i18n.DEFAULT_LANGUAGE_CODE
DEFAULT_LANGUAGE_CODE == "en"

\* what the loop reads of a file: its name and, of its metadata, the
\* license code, version and language (metadata["language_code"] or
\* DEFAULT_LANGUAGE_CODE)
File(filename) ==
    LET metadata == parse_legalcode_filename(filename) IN
    [filename |-> filename,
     license_code |-> metadata.license_code,
     version |-> metadata.version,
     language_code |-> IF metadata.language_code # "" THEN metadata.language_code
                       ELSE DEFAULT_LANGUAGE_CODE]

\* the License record handle makes for a file
License(f) ==
    [license_code |-> f.license_code, version |-> f.version,
     permits_derivative_works |-> permits_derivative_works(f.license_code),
     permits_reproduction |-> ND \notin license_code_parts(f.license_code),
     permits_distribution |-> ND \notin license_code_parts(f.license_code),
     permits_sharing |-> ND \notin license_code_parts(f.license_code),
     requires_share_alike |-> requires_share_alike(f.license_code),
     requires_notice |-> TRUE,
     requires_attribution |-> TRUE,
     requires_source_code |-> FALSE,
     prohibits_commercial_use |-> prohibits_commercial_use(f.license_code),
     prohibits_high_income_nation_use |-> FALSE]

\* a LegalCode record: its license, language and html_file (the directory
\* and the name of the file when the record was made)
LegalCode(license_code, file_version, language_code, directory, filename) ==
    [license_code |-> license_code, version |-> file_version,
     language_code |-> language_code, html_file |-> <<directory, filename>>]

\* License.objects.get_or_create(about=..., defaults=...)
get_or_create_license(records, f) ==
    IF \E r \in records : r.license_code = f.license_code /\ r.version = f.version
    THEN records
    ELSE records \cup {License(f)}

\* LegalCode.objects.get_or_create(license=, language_code=, defaults=dict(html_file=))
get_or_create_legalcode(records, f) ==
    IF \E r \in records : /\ r.license_code = f.license_code
                           /\ r.version = f.version
                           /\ r.language_code = f.language_code
    THEN records
    ELSE records \cup {LegalCode(f.license_code, f.version, f.language_code,
                                  "input_directory", f.filename)}

RECURSIVE walk(_, _)
\* the loop over html_filenames, file by file, on the store as the files
\* before left it; a license code without a part "by" raises
walk(store, names) ==
    IF names = <<>> THEN store
    ELSE LET f == File(Head(names)) IN
         IF Code_by \notin license_code_parts(f.license_code)
         THEN [store EXCEPT !.error = "NotImplementedError"]
         ELSE walk([licenses |-> get_or_create_license(store.licenses, f),
                    legalcodes |-> get_or_create_legalcode(store.legalcodes, f),
                    error |-> ""],
                   Tail(names))

\* the name of the file of a license code, version and language, the
\* English one without a language
Name(license_code, file_version, language) ==
    license_code \o <<"_">> \o file_version
    \o (IF language = <<"e", "n">> THEN <<>> ELSE <<"_">> \o language) \o DOT_HTML

V40 == <<"4", ".", "0">>

\* names the filter drops
OtherNames ==
    {<<"R", "E", "A", "D", "M", "E", ".", "t", "x", "t">>,
     <<"z", "e", "r", "o", "_", "1", ".", "0">> \o DOT_HTML,
     <<"b", "y", "_", "4", ".", "0", ".", "t", "x", "t">>}

\* a directory with the six 4.0 files of each language
Listing(languages) ==
    {Name(LICENSE_CODES[c], V40, languages[l]) :
        c \in 1..Len(LICENSE_CODES), l \in 1..Len(languages)} \cup OtherNames

\* Portuguese for by only
ListingPartial == Listing(<< <<"e", "n">> >>) \cup {Name(Code_by, V40, <<"p", "t">>)}

\* with a 3.0 file of a language that has no 4.0 file
ListingOld ==
    Listing(<< <<"e", "n">> >>) \cup {Name(Code_by, <<"3", ".", "0">>, <<"f", "r">>)}

\* with a file whose license code has no part "by"
ListingOther ==
    Listing(<< <<"e", "n">> >>) \cup {Name(<<"b", "y", "n", "c">>, V40, <<"e", "n">>)}

\* by in English under both names
ListingBothEn ==
    Listing(<< <<"e", "n">> >>) \cup {Code_by \o <<"_">> \o V40 \o <<"_", "e", "n">> \o DOT_HTML}

\* English named by_4.0_en.html
ListingNamedEn ==
    {LICENSE_CODES[c] \o <<"_">> \o V40 \o <<"_", "e", "n">> \o DOT_HTML :
        c \in 1..Len(LICENSE_CODES)}

Listings ==
    {Listing(l) : l \in LanguageLists}
    \cup {ListingPartial, ListingOld, ListingOther, ListingNamedEn, ListingBothEn}

\* the directory and the records the store holds before the run: none, or
\* one of an earlier run whose file is no longer there
Worlds ==
    {[input_directory |-> l, licenses |-> {}, legalcodes |-> {}] : l \in Listings}
    \cup {[input_directory |-> Listing(<< <<"e", "n">> >>),
           licenses |-> {License(File(Name(Code_by_sa, V40, <<"e", "n">>)))},
           legalcodes |-> {LegalCode(Code_by_sa, version, "en", "elsewhere",
                                     Name(Code_by_sa, V40, <<"e", "n">>))}]}

\* the language codes of the model in order_by("language_code") order
LanguageOrder == <<"de", "en", "fr", "pt">>

\* LegalCode.objects.filter(license__version=version,
\* license__license_code__startswith="by").order_by("language_code")
\* .distinct("language_code").values_list("language_code", flat=True)
listed_language_codes(records) ==
    LET listed(l) == \E r \in records : /\ r.version = version
                                        /\ startswith(r.license_code, Code_by)
                                        /\ r.language_code = l
    IN  SelectSeq(LanguageOrder, listed)

\* LegalCode.objects.get(license__license_code=, license__version=, language_code=)
get_legalcodes(records, license_code, language_code) ==
    {r \in records : /\ r.license_code = license_code
                     /\ r.version = version
                     /\ r.language_code = language_code}

\* the documents of the batch run: those of one license code may be
\* irregular, the English one of them in its list lengths and values only
HandleDocs(license_code, language_code, odd) ==
    IF license_code # odd THEN {BaseDoc(license_code, language_code)}
    ELSE IF language_code = "en" THEN ListDocs(license_code, language_code)
    ELSE Docs(license_code, language_code)

license_code_now == LICENSE_CODES[ci]

language_code_now == loop_languages[li]

(***************************************************************************)
(* Command.handle.                                                         *)
(***************************************************************************)
Init ==
    /\ \E w \in Worlds :
         /\ input_directory = w.input_directory
         /\ licenses = w.licenses
         /\ legalcodes = w.legalcodes
    /\ html_filenames = <<>>
    /\ catalog_load \in {"", "TypeError", "FileNotFoundError"}
    /\ language_codes = <<>>
    /\ loop_languages = <<>>
    /\ li = 1
    /\ ci = 1
    /\ pc = "walk"
    /\ messages_text = <<>>
    /\ english_by_license_code = <<>>
    /\ english_text = <<>>
    /\ pofile = NoPOFile
    /\ saved = {}
    /\ error = ""
    /\ odd_code \in {LICENSE_CODES[c] : c \in 1..Len(LICENSE_CODES)}
    /\ arg = NoArg
    /\ ret = NoRet
    /\ resolving = NoResolving
    /\ scanning = NoScanning

\* list.remove(x): without the first x
remove(seq, x) ==
    LET i == index(seq, x) IN SubSeq(seq, 1, i - 1) \o SubSeq(seq, i + 1, Len(seq))

\* languages_in_order without the move of "en" to the front
languages_as_listed(codes) == codes

\* the languages in the order handle walks them
languages_in_order(codes) == <<"en">> \o remove(codes, "en")

\* the listing and the loop over html_filenames
Walk ==
    /\ pc = "walk"
    /\ LET names == listed_html_filenames(input_directory)
           store == walk([licenses |-> licenses, legalcodes |-> legalcodes, error |-> ""],
                         names)
       IN  /\ html_filenames' = names
           /\ licenses' = store.licenses
           /\ legalcodes' = store.legalcodes
           /\ IF store.error = ""
              THEN pc' = "start" /\ error' = error
              ELSE pc' = "failed" /\ error' = store.error
    /\ UNCHANGED <<input_directory, catalog_load, language_codes, loop_languages,
                   li, ci, messages_text, english_by_license_code, english_text,
                   pofile, saved, odd_code, arg, ret, resolving, scanning>>

\* the query for the language codes, language_codes.remove("en"), and the
\* list of the outer loop
Start ==
    /\ pc = "start"
    /\ LET codes == listed_language_codes(legalcodes) IN
       IF \E i \in 1..Len(codes) : codes[i] = "en"
       THEN /\ language_codes' = remove(codes, "en")
            /\ loop_languages' = languages_in_order(codes)
            /\ pc' = "import"
            /\ error' = error
       ELSE /\ language_codes' = codes
            /\ loop_languages' = loop_languages
            /\ pc' = "failed"
            /\ error' = "ValueError"
    /\ UNCHANGED <<input_directory, html_filenames, licenses, legalcodes,
                   catalog_load,
                   li, ci, messages_text, english_by_license_code,
                   english_text, pofile, saved, odd_code, arg, ret, resolving, scanning>>

\* what handle does with the result of the extractor: a raise leaves
\* messages_text as the document before left it
after_import(r, messages_before) ==
    IF r.err = ""
    THEN [pc |-> "store", error |-> "", messages_text |-> r.messages]
    ELSE [pc |-> "failed", error |-> r.err, messages_text |-> messages_before]

\* find the record, read its file and extract the field map
Import ==
    /\ pc = "import"
    /\ LET found == get_legalcodes(legalcodes, license_code_now, language_code_now) IN
       IF found = {}
       THEN /\ pc' = "failed"
            /\ error' = "DoesNotExist"
            /\ messages_text' = messages_text
       ELSE IF \E r \in found : \/ r.html_file[1] # "input_directory"
                                 \/ r.html_file[2] \notin input_directory
       THEN /\ pc' = "failed"
            /\ error' = "FileNotFoundError"
            /\ messages_text' = messages_text
       ELSE \E content \in HandleDocs(license_code_now, language_code_now, odd_code) :
              LET r == import_by_40_license_html(content, license_code_now, language_code_now)
                  n == after_import(r, messages_text)
              IN  /\ pc' = n.pc
                  /\ error' = n.error
                  /\ messages_text' = n.messages_text
    /\ UNCHANGED <<input_directory, html_filenames, licenses, legalcodes,
                   catalog_load,
                   language_codes, loop_languages, li, ci, english_by_license_code,
                   english_text, pofile, saved, odd_code, arg, ret, resolving, scanning>>

\* english_by_license_code after the "if language_code == 'en'" statement
store_english(by_code, language_code, license_code, messages) ==
    IF language_code = "en" THEN SetItem(by_code, license_code, messages) ELSE by_code

\* keep the English field map, then read the one of this license code
Store ==
    /\ pc = "store"
    /\ LET kept == store_english(english_by_license_code, language_code_now,
                                 license_code_now, messages_text)
       IN  /\ english_by_license_code' = kept
           /\ IF HasKey(kept, license_code_now)
              THEN /\ english_text' = Get(kept, license_code_now)
                   /\ pc' = "assemble"
                   /\ error' = error
              ELSE /\ english_text' = english_text
                   /\ pc' = "failed"
                   /\ error' = "KeyError"
    /\ UNCHANGED <<input_directory, html_filenames, licenses, legalcodes,
                   catalog_load,
                   language_codes, loop_languages, li, ci, messages_text, pofile,
                   saved, odd_code, arg, ret, resolving, scanning>>

\* build the catalog, write it, load it with gettext.Catalog(...,
\* codeset="utf-8") (a TypeError where gettext.translation has no such
\* parameter, a FileNotFoundError where it finds no .mo file under the
\* language it is given), and move to the next document
Assemble ==
    /\ pc = "assemble"
    /\ pofile' = POFile(license_code_now, language_code_now,
                        po_entries(messages_text, english_text, language_code_now))
    /\ IF ~HasKey(messages_text, "license_medium")
       THEN /\ pc' = "failed"
            /\ error' = "AssertionError"
            /\ UNCHANGED <<saved, li, ci>>
       ELSE /\ saved' = saved \cup {<<license_code_now, language_code_now>>}
            /\ error' = IF catalog_load = "" THEN error ELSE catalog_load
            /\ IF catalog_load # ""
               THEN /\ ci' = ci
                    /\ li' = li
                    /\ pc' = "failed"
               ELSE IF ci < Len(LICENSE_CODES)
               THEN /\ ci' = ci + 1
                    /\ li' = li
                    /\ pc' = "import"
               ELSE IF li < Len(loop_languages)
               THEN /\ ci' = 1
                    /\ li' = li + 1
                    /\ pc' = "import"
               ELSE /\ ci' = ci
                    /\ li' = li
                    /\ pc' = "done"
    /\ UNCHANGED <<input_directory, html_filenames, licenses, legalcodes,
                   catalog_load,
                   language_codes, loop_languages, messages_text,
                   english_by_license_code, english_text, odd_code, arg, ret, resolving, scanning>>

Next == Walk \/ Start \/ Import \/ Store \/ Assemble

Spec == Init /\ [][Next]_vars

(***************************************************************************)
(* A single call of import_by_40_license_html on any document.             *)
(***************************************************************************)
CallLanguages == {"de", "en", "pt"}

InitCall ==
    /\ input_directory = {}
    /\ html_filenames = <<>>
    /\ licenses = {}
    /\ legalcodes = {}
    /\ catalog_load = ""
    /\ language_codes = <<>>
    /\ loop_languages = <<>>
    /\ li = 1
    /\ ci = 1
    /\ pc = "call"
    /\ messages_text = <<>>
    /\ english_by_license_code = <<>>
    /\ english_text = <<>>
    /\ pofile = NoPOFile
    /\ saved = {}
    /\ error = ""
    /\ odd_code = <<>>
    /\ \E c \in 1..Len(LICENSE_CODES), l \in CallLanguages :
         \E d \in Docs(LICENSE_CODES[c], l) :
            arg = [content |-> d, license_code |-> LICENSE_CODES[c], language_code |-> l]
    /\ ret = NoRet
    /\ resolving = NoResolving
    /\ scanning = NoScanning

Call ==
    /\ pc = "call"
    /\ ret' = import_by_40_license_html(arg.content, arg.license_code, arg.language_code)
    /\ pc' = "returned"
    /\ UNCHANGED <<input_directory, html_filenames, licenses, legalcodes,
                   catalog_load,
                   language_codes, loop_languages, li, ci, messages_text,
                   english_by_license_code, english_text, pofile, saved, error,
                   odd_code, arg, resolving, scanning>>

NextCall == Call

SpecCall == InitCall /\ [][NextCall]_vars

(***************************************************************************)
(* Properties of a single call (SpecCall).                                 *)
(***************************************************************************)
Returned == pc = "returned" /\ ret.err = ""

\* the keys the definitions loop stored, in order: they follow the three
\* titles and s1_definitions_title
definition_keys(messages, n) == [i \in 1..n |-> messages[4 + i][1]]

Prefixed(prefix, names) == [i \in 1..Len(names) |-> prefix \o names[i]]

NcSa13 ==
    << "adapted_material", "adapters_license", "by_nc_sa_compatible_license",
       "copyright_and_similar_rights", "effective_technological_measures",
       "exceptions_and_limitations", "license_elements_nc_sa", "licensed_material",
       "licensed_rights", "licensor", "share", "sui_generis_database_rights", "you" >>

NcSa14 ==
    << "adapted_material", "adapters_license", "by_nc_sa_compatible_license",
       "copyright_and_similar_rights", "effective_technological_measures",
       "exceptions_and_limitations", "license_elements_nc_sa", "licensed_material",
       "licensed_rights", "licensor", "noncommercial", "share",
       "sui_generis_database_rights", "you" >>

\* C1 as stated: for by-nc-sa a document of 13 definition items gets the 13
\* names adapted_material .. you (no "noncommercial") in order, and the
\* resolved schema is those 13 names.
C1_ThirteenFields ==
    (Returned /\ arg.license_code = Code_by_nc_sa /\ arg.content.n_defs = Len(NcSa13))
        => /\ definition_keys(ret.messages, Len(NcSa13)) = Prefixed("s1_definitions_", NcSa13)
           /\ expected_definitions(arg.license_code, arg.language_code).seq = NcSa13

\* C1, amended: for by-nc-sa (any language) the resolved schema is the 14
\* names adapted_material, adapters_license, by_nc_sa_compatible_license,
\* copyright_and_similar_rights, effective_technological_measures,
\* exceptions_and_limitations, license_elements_nc_sa, licensed_material,
\* licensed_rights, licensor, noncommercial, share,
\* sui_generis_database_rights, you, and the i-th definition item of the
\* document is stored under the i-th of them.
C1_FourteenFields ==
    (Returned /\ arg.license_code = Code_by_nc_sa)
        => /\ expected_definitions(arg.license_code, arg.language_code).seq = NcSa14
           /\ arg.content.n_defs <= Len(NcSa14)
           /\ \A i \in 1..arg.content.n_defs :
                /\ ret.messages[4 + i][1] = "s1_definitions_" \o NcSa14[i]
                /\ ret.messages[4 + i][2] =
                      <<"*">> \o Content(arg.content, "s1.li" \o ToString(i) \o ".strong")
                      \o <<"*", " ">>
                      \o Content(arg.content, "s1.li" \o ToString(i) \o ".text")

C1_Witness ==
    /\ Returned
    /\ arg.license_code = Code_by_nc_sa
    /\ arg.language_code = "de"
    /\ arg.content.n_defs = Len(NcSa14)
    /\ ret.messages[4 + 11][1] = "s1_definitions_noncommercial"
    /\ ret.messages[4 + 14][1] = "s1_definitions_you"

AdaptedNames ==
    {"s2a_license_grant_adapted", "s2a_license_grant_adapted_nc",
     "s2a_license_grant_adapted_nd", "s2a_license_grant_adapted_nc_nd"}

\* the name the claim gives a (non-commercial, no-derivatives) combination
AdaptedNameOf(nc, nd) ==
    IF nc /\ nd THEN "s2a_license_grant_adapted_nc_nd"
    ELSE IF nc THEN "s2a_license_grant_adapted_nc"
    ELSE IF nd THEN "s2a_license_grant_adapted_nd"
    ELSE "s2a_license_grant_adapted"

\* C7: a returned field map holds exactly one of the four s2a1B names, the
\* one of the license's (non-commercial, no-derivatives) flags, with the
\* stripped content of s2a1B as its value; the four combinations have four
\* different names.
C7_OneAdaptedField ==
    Returned =>
        LET nc == prohibits_commercial_use(arg.license_code)
            nd == ~permits_derivative_works(arg.license_code)
        IN  /\ KeySet(ret.messages) \cap AdaptedNames = {AdaptedNameOf(nc, nd)}
            /\ Cardinality({i \in 1..Len(ret.messages) : ret.messages[i][1] \in AdaptedNames}) = 1
            /\ Get(ret.messages, AdaptedNameOf(nc, nd)) = strip(Content(arg.content, "s2a1B[0]"))
            /\ Cardinality({AdaptedNameOf(a, b) : a, b \in BOOLEAN}) = 4

C7_Witness ==
    /\ Returned
    /\ arg.license_code = Code_by_nc_nd
    /\ HasKey(ret.messages, "s2a_license_grant_adapted_nc_nd")
    /\ arg.content.pad
    /\ Get(ret.messages, "s2a_license_grant_adapted_nc_nd") # Content(arg.content, "s2a1B[0]")

\* C8 as stated: when the children of s4's parent run out before the scan
\* is done, the call fails; a returned field map always holds
\* s4_sui_generics_database_rights_postscript.
C8_ScanFailureIsFatal ==
    pc = "returned" =>
        /\ ~scan(scan_start, arg.content.s4_parent).done => ret.err # ""
        /\ ret.err = "" => HasKey(ret.messages, "s4_sui_generics_database_rights_postscript")

\* C9 as stated: a returned field map holds s1_definitions_<name> for every
\* name of the resolved definitions schema and a name/text pair for every
\* name of the downstream schema; a list whose length differs from its
\* schema's makes the call fail.
C9_SchemaFieldsPresent ==
    pc = "returned" =>
        LET defs == expected_definitions(arg.license_code, arg.language_code).seq
            down == expected_downstreams(arg.license_code)
        IN  /\ ret.err = "" =>
                 /\ \A i \in 1..Len(defs) :
                      HasKey(ret.messages, "s1_definitions_" \o defs[i])
                 /\ \A i \in 1..Len(down) :
                      /\ HasKey(ret.messages,
                                "s2a5_license_grant_downstream_" \o down[i] \o "_name")
                      /\ HasKey(ret.messages,
                                "s2a5_license_grant_downstream_" \o down[i] \o "_text")
            /\ (arg.content.n_defs # Len(defs) \/ arg.content.n_downstream # Len(down))
                 => ret.err # ""

\* the children of s6b before its first list child
before_list(s6b) ==
    LET ols == {i \in 1..Len(s6b) : s6b[i].name = "ol"}
        stop == IF ols = {} THEN Len(s6b) + 1 ELSE CHOOSE i \in ols : \A j \in ols : i <= j
    IN  SubSeq(s6b, 1, stop - 1)

\* the text the claim asks for: the wrapper paragraph's when a paragraph is a
\* child of s6b before its list, else the markup of the children before the list
where_by_shape(s6b) ==
    LET head == before_list(s6b)
        ps == {i \in 1..Len(head) : head[i].name = "p"}
    IN  IF ps # {}
        THEN get_text(head[CHOOSE i \in ps : \A j \in ps : i <= j])
        ELSE Concat([i \in 1..Len(head) |-> str(head[i])])

\* C10 as stated: s6_termination_reinstates_where is the wrapper paragraph's
\* text when s6b has a paragraph child before its list, and otherwise the
\* markup of s6b's children before the list; a paragraph inside the list's
\* items is not the wrapper.
C10_ShapeDetected ==
    Returned =>
        Get(ret.messages, "s6_termination_reinstates_where") = where_by_shape(arg.content.s6b)

(***************************************************************************)
(* Properties of the batch run (Spec).                                     *)
(***************************************************************************)
\* a catalog has been built and the next document is not yet read: pofile,
\* messages_text and english_text are those of the same document
JustAssembled == pc \in {"import", "done"} /\ pofile.language # ""

AllCodes == {LICENSE_CODES[c] : c \in 1..Len(LICENSE_CODES)}

\* C2: English goes first: while a document of another language is being
\* extracted, kept or assembled, the English field map of every one of the
\* six license codes is already kept; the map read for an assembly is the
\* kept one of the document's license code, and the read never fails.
C2_EnglishFirst ==
    /\ error # "KeyError"
    /\ (pc \in {"import", "store", "assemble"} /\ language_code_now # "en")
         => \A c \in AllCodes : HasKey(english_by_license_code, c)
    /\ pc = "assemble"
         => /\ HasKey(english_by_license_code, license_code_now)
            /\ english_text = Get(english_by_license_code, license_code_now)
    /\ \A p \in saved : HasKey(english_by_license_code, p[1])
    /\ (saved # {} /\ pc # "failed") => <<Code_by, "en">> \in saved

C2_Witness ==
    /\ pc = "assemble"
    /\ language_codes = <<"de", "pt">>
    /\ language_code_now = "de"
    /\ license_code_now = odd_code
    /\ KeySet(english_text) # KeySet(messages_text)

\* C3: the entries of an English catalog are, field by field of the kept
\* English field map of that license code, the pair (the field's own
\* English text, the empty string); and every field of an English document
\* is found in the English map read for it, so the fallback is not taken.
C3_EnglishCatalog ==
    /\ pofile.language = "en"
         => LET own == Get(english_by_license_code, pofile.license_code)
            IN  pofile.entries = [i \in 1..Len(own) |-> [msgid |-> own[i][2], msgstr |-> <<>>]]
    /\ (pc = "assemble" /\ language_code_now = "en")
         => \A i \in 1..Len(messages_text) : HasKey(english_text, messages_text[i][1])

C3_Witness ==
    /\ JustAssembled
    /\ pofile.language = "en"
    /\ pofile.license_code = Code_by_nc
    /\ Len(pofile.entries) = Len(messages_text)
    /\ pofile.entries[1].msgid = messages_text[1][2]
    /\ pofile.entries[1].msgid # <<>>

\* C4: in the catalog just built, the key of a field the English map of the
\* same license code holds is the English text of that field, and the key
\* of a field the English map lacks is the document's own text for it.
C4_KeyFallback ==
    JustAssembled =>
        /\ english_text = Get(english_by_license_code, pofile.license_code)
        /\ Len(pofile.entries) = Len(messages_text)
        /\ \A i \in 1..Len(messages_text) :
             LET F == messages_text[i][1] IN
             IF HasKey(english_text, F)
             THEN pofile.entries[i].msgid = Get(english_text, F)
             ELSE pofile.entries[i].msgid = messages_text[i][2]

C4_Witness ==
    /\ JustAssembled
    /\ pofile.language = "pt"
    /\ \E i \in 1..Len(messages_text) :
         /\ ~HasKey(english_text, messages_text[i][1])
         /\ pofile.entries[i].msgid = messages_text[i][2]
    /\ \E i \in 1..Len(messages_text) :
         /\ HasKey(english_text, messages_text[i][1])
         /\ pofile.entries[i].msgid # messages_text[i][2]

\* the English catalog of a license code
english_catalog(license_code) ==
    LET own == Get(english_by_license_code, license_code)
    IN  po_entries(own, own, "en")

\* C5: the catalog just built for another language whose field map has the
\* field names of the English map has one entry per field, in the order of
\* the field map; its keys are those of the English catalog, position by
\* position, and each value is the document's text for the field, stripped.
C5_SameFields ==
    (JustAssembled /\ pofile.language # "en"
     /\ KeySet(messages_text) = KeySet(english_text))
        => LET en == english_catalog(pofile.license_code) IN
           /\ Len(pofile.entries) = Len(messages_text)
           /\ Cardinality(KeySet(messages_text)) = Len(messages_text)
           /\ Len(en) = Len(pofile.entries)
           /\ \A i \in 1..Len(pofile.entries) :
                /\ pofile.entries[i].msgid = en[i].msgid
                /\ pofile.entries[i].msgstr = strip(messages_text[i][2])
                /\ pofile.entries[i].msgstr = <<>> \/
                     /\ Head(pofile.entries[i].msgstr) \notin Whitespace
                     /\ pofile.entries[i].msgstr[Len(pofile.entries[i].msgstr)] \notin Whitespace

C5_Witness ==
    /\ JustAssembled
    /\ pofile.language = "de"
    /\ pofile.license_code = Code_by_sa
    /\ KeySet(messages_text) = KeySet(english_text)
    /\ pofile.entries[1].msgstr # messages_text[1][2]
    /\ pofile.entries[1].msgid # messages_text[1][2]

\* C6: a field map that is kept or assembled has passed validation, no
\* catalog entry holds a value that is not text, and when the extraction of
\* a document fails validation no catalog is built or written for it.
C6_ValidatedBeforeAssembly ==
    /\ pc \in {"store", "assemble"} => validate_dictionary_is_all_text(messages_text)
    /\ JustAssembled => validate_dictionary_is_all_text(messages_text)
    /\ \A i \in 1..Len(pofile.entries) :
         isinstance_str(pofile.entries[i].msgid) /\ isinstance_str(pofile.entries[i].msgstr)
    /\ error = "IncompleteExtraction"
         => /\ pc = "failed"
            /\ <<license_code_now, language_code_now>> \notin saved
            /\ ~(pofile.license_code = license_code_now /\ pofile.language = language_code_now)

C6_Witness ==
    /\ error = "IncompleteExtraction"
    /\ language_code_now = "pt"
    /\ saved # {}
    /\ pofile.language # ""

(***************************************************************************)
(* The resolution of the definitions schema, one insert_after at a time.   *)
(***************************************************************************)
SchemaLanguages == {"de", "en", "es", "fr", "nl", "pt", "zh-Hans"}

rules_now == insertion_rules(resolving.license_code, resolving.language_code)

InitSchema ==
    /\ input_directory = {}
    /\ html_filenames = <<>>
    /\ licenses = {}
    /\ legalcodes = {}
    /\ catalog_load = ""
    /\ language_codes = <<>>
    /\ loop_languages = <<>>
    /\ li = 1
    /\ ci = 1
    /\ pc = "resolve"
    /\ messages_text = <<>>
    /\ english_by_license_code = <<>>
    /\ english_text = <<>>
    /\ pofile = NoPOFile
    /\ saved = {}
    /\ error = ""
    /\ odd_code = <<>>
    /\ arg = NoArg
    /\ ret = NoRet
    /\ \E c \in 1..Len(LICENSE_CODES), l \in SchemaLanguages :
         resolving = [license_code |-> LICENSE_CODES[c], language_code |-> l,
                      s |-> Schema(base_definitions), fired |-> 0]
    /\ scanning = NoScanning

\* the next insert_after call of the branch taken
ApplyRule ==
    /\ pc = "resolve"
    /\ ~resolving.s.fault
    /\ resolving.fired < Len(rules_now)
    /\ LET rule == rules_now[resolving.fired + 1] IN
       resolving' = [resolving EXCEPT !.s = insert_after(resolving.s, rule[1], rule[2]),
                                      !.fired = resolving.fired + 1]
    /\ UNCHANGED <<input_directory, html_filenames, licenses, legalcodes,
                   catalog_load,
                   language_codes, loop_languages, li, ci, pc, messages_text,
                   english_by_license_code, english_text, pofile, saved, error,
                   odd_code, arg, ret, scanning>>

\* the branch is through, or list.index() has raised
EndRules ==
    /\ pc = "resolve"
    /\ resolving.s.fault \/ resolving.fired = Len(rules_now)
    /\ pc' = "resolved"
    /\ error' = IF resolving.s.fault THEN "ValueError" ELSE error
    /\ UNCHANGED <<input_directory, html_filenames, licenses, legalcodes,
                   catalog_load,
                   language_codes, loop_languages, li, ci, messages_text,
                   english_by_license_code, english_text, pofile, saved,
                   odd_code, arg, ret, resolving, scanning>>

NextSchema == ApplyRule \/ EndRules

SpecSchema == InitSchema /\ [][NextSchema]_vars

(***************************************************************************)
(* Properties of the schema resolution (SpecSchema).                       *)
(***************************************************************************)
\* seq without its i-th entry
Without(seq, i) == SubSeq(seq, 1, i - 1) \o SubSeq(seq, i + 1, Len(seq))

\* what the step from old to new must be for the rule <<Y, X>>
PlacedAfter(old, new, Y, X) ==
    \E i \in 1..Len(old) :
        /\ old[i] = Y
        /\ new[i] = Y
        /\ new[i + 1] = X
        /\ Len(new) = Len(old) + 1
        /\ Without(new, i + 1) = old

C11_Step ==
    (resolving'.fired = resolving.fired + 1)
        => LET rule == rules_now[resolving.fired + 1] IN
           /\ ~resolving'.s.fault
           /\ PlacedAfter(resolving.s.seq, resolving'.s.seq, rule[1], rule[2])

C11_Resolved ==
    pc = "resolved" =>
        /\ resolving.s = expected_definitions(resolving.license_code, resolving.language_code)
        /\ resolving.license_code = Code_by_sa
             => SubSeq(resolving.s.seq, 1, 3)
                  = <<"adapted_material", "adapters_license", "by_sa_compatible_license">>

\* C11: every insert_after(Y, X) that is applied puts X right after Y and
\* leaves the other names in their order, the rules being applied in the
\* order they are written; the list so resolved is the one the extractor
\* uses, and for by-sa it begins adapted_material, adapters_license,
\* by_sa_compatible_license.
C11_InsertAfter == []C11_Resolved /\ [][C11_Step]_vars

C11_Witness ==
    /\ pc = "resolved"
    /\ resolving.license_code = Code_by_sa
    /\ resolving.language_code = "fr"
    /\ resolving.fired = 3
    /\ resolving.s.seq[2] = "adapters_license"
    /\ resolving.s.seq[3] = "by_sa_compatible_license"

\* the length the resolved list is to have
ResolvedLen(license_code, language_code) ==
    IF license_code = Code_by THEN 11
    ELSE IF license_code = Code_by_sa THEN (IF language_code = "pt" THEN 14 ELSE 13)
    ELSE IF license_code = Code_by_nc THEN 12
    ELSE IF license_code = Code_by_nd THEN 10
    ELSE IF license_code = Code_by_nc_nd THEN 11
    ELSE 14

NoDuplicates(seq) == \A i, j \in 1..Len(seq) : seq[i] = seq[j] => i = j

\* C13: for each of the six license codes and any language, every
\* insert_after that is reached finds its anchor in the list, so no
\* resolution ends in a fault; the list never holds a name twice, it is 10
\* plus the number of rules fired long, and resolved it has 11 names for by,
\* 13 for by-sa (14 for "pt"), 12 for by-nc, 10 for by-nd, 11 for by-nc-nd
\* and 14 for by-nc-sa.
C13_NoSchemaFault ==
    pc \in {"resolve", "resolved"} =>
        LET seq == resolving.s.seq
            license_code == resolving.license_code
            language_code == resolving.language_code
        IN  /\ \E c \in 1..Len(LICENSE_CODES) : LICENSE_CODES[c] = license_code
            /\ ~resolving.s.fault
            /\ error # "ValueError"
            /\ resolving.fired < Len(rules_now)
                 => \E i \in 1..Len(seq) : seq[i] = rules_now[resolving.fired + 1][1]
            /\ NoDuplicates(seq)
            /\ Len(base_definitions) = 10
            /\ Len(seq) = 10 + resolving.fired
            /\ pc = "resolved" =>
                 /\ resolving.fired = Len(rules_now)
                 /\ Len(seq) = ResolvedLen(license_code, language_code)
                 /\ ~expected_definitions(license_code, language_code).fault
                 /\ Len(expected_definitions(license_code, language_code).seq)
                      = ResolvedLen(license_code, language_code)

C13_Witness ==
    /\ pc = "resolved"
    /\ resolving.license_code = Code_by_sa
    /\ resolving.language_code = "pt"
    /\ resolving.fired = 4
    /\ Len(resolving.s.seq) = 14
    /\ resolving.s.seq[14] = "you2"

(***************************************************************************)
(* The scan for the text after the list of s4, one child at a time.        *)
(***************************************************************************)
ScanShapes(w) == S4Shapes(w) \cup {S4ListThenList(w), S4NoAnchor(w)}

InitScan ==
    /\ input_directory = {}
    /\ html_filenames = <<>>
    /\ licenses = {}
    /\ legalcodes = {}
    /\ catalog_load = ""
    /\ language_codes = <<>>
    /\ loop_languages = <<>>
    /\ li = 1
    /\ ci = 1
    /\ pc = "scan"
    /\ messages_text = <<>>
    /\ english_by_license_code = <<>>
    /\ english_text = <<>>
    /\ pofile = NoPOFile
    /\ saved = {}
    /\ error = ""
    /\ odd_code = <<>>
    /\ arg = NoArg
    /\ ret = NoRet
    /\ resolving = NoResolving
    /\ \E w \in CallLanguages : \E children \in ScanShapes(w) :
         scanning = [children |-> children, pos |-> 0, st |-> scan_start]

\* the loop body on the next child
ScanStep ==
    /\ pc = "scan"
    /\ ~scanning.st.done
    /\ scanning.pos < Len(scanning.children)
    /\ scanning' = [scanning EXCEPT
                      !.pos = scanning.pos + 1,
                      !.st = scan_step(scanning.st, scanning.children[scanning.pos + 1])]
    /\ UNCHANGED <<input_directory, html_filenames, licenses, legalcodes,
                   catalog_load,
                   language_codes, loop_languages, li, ci, pc, messages_text,
                   english_by_license_code, english_text, pofile, saved, error,
                   odd_code, arg, ret, resolving>>

\* the break, or the end of the children
ScanEnd ==
    /\ pc = "scan"
    /\ scanning.st.done \/ scanning.pos = Len(scanning.children)
    /\ pc' = "scanned"
    /\ UNCHANGED <<input_directory, html_filenames, licenses, legalcodes,
                   catalog_load,
                   language_codes, loop_languages, li, ci, messages_text,
                   english_by_license_code, english_text, pofile, saved, error,
                   odd_code, arg, ret, resolving, scanning>>

NextScan == ScanStep \/ ScanEnd

SpecScan == InitScan /\ [][NextScan]_vars

(***************************************************************************)
(* Properties of the scan (SpecScan).                                      *)
(***************************************************************************)
\* SEEKING_ANCHOR 0, SEEN_ANCHOR_AWAITING_LIST 1, LIST_SEEN_TAKE_NEXT 2, DONE 3
Phase(st) ==
    IF st.done THEN 3 ELSE IF st.take_next THEN 2 ELSE IF st.s4_seen THEN 1 ELSE 0

\* position of the first child that is the s4 anchor, 0 when there is none
AnchorPos(children) ==
    LET at == {j \in 1..Len(children) : IsTag(children[j]) /\ children[j].id = "s4"}
    IN  IF at = {} THEN 0 ELSE CHOOSE j \in at : \A k \in at : j <= k

\* position of the first <ol> after the anchor, 0 when there is none
ListPos(children) ==
    LET a == AnchorPos(children)
        at == {j \in 1..Len(children) : j > a /\ children[j].name = "ol"}
    IN  IF a = 0 \/ at = {} THEN 0 ELSE CHOOSE j \in at : \A k \in at : j <= k

RECURSIVE single_text(_)
\* a text, or an element whose only child is one
single_text(node) ==
    IF ~IsTag(node) THEN TRUE
    ELSE IF Len(node.kids) = 1 THEN single_text(node.kids[1])
    ELSE FALSE

\* C12 as stated, in what it says of the value: once the scan is done the
\* value captured is the text of the sibling right after the list.
C12_TextCaptured ==
    (pc \in {"scan", "scanned"} /\ scanning.st.done)
        => scanning.st.value
             = get_text(scanning.children[ListPos(scanning.children) + 1])

C12_State ==
    pc \in {"scan", "scanned"} =>
        LET children == scanning.children
            pos == scanning.pos
            st == scanning.st
            a == AnchorPos(children)
            l == ListPos(children)
        IN  /\ Phase(st) >= 1 <=> (a # 0 /\ pos >= a)
            /\ Phase(st) >= 2 <=> (l # 0 /\ pos >= l)
            /\ Phase(st) = 3 <=> (l # 0 /\ pos = l + 1)
            /\ l # 0 => pos <= l + 1
            /\ st.take_next => st.s4_seen
            /\ st.done => st.take_next
            /\ IF st.done
               THEN /\ st.value = string(children[l + 1])
                    /\ st.value = IF single_text(children[l + 1])
                                  THEN get_text(children[l + 1])
                                  ELSE None
                    /\ ~IsTag(children[l + 1]) => st.value = children[l + 1].text
               ELSE st.value = None
            /\ pc = "scanned" => /\ st = scan(scan_start, children)
                                 /\ st.done \/ pos = Len(children)

C12_Step ==
    /\ Phase(scanning'.st) >= Phase(scanning.st)
    /\ Phase(scanning'.st) <= Phase(scanning.st) + 1
    /\ scanning'.children = scanning.children
    /\ scanning.st.done => scanning' = scanning
    /\ scanning.st.value # None => scanning'.st.value = scanning.st.value

\* C12: the scan goes only forward through SEEKING_ANCHOR,
\* SEEN_ANCHOR_AWAITING_LIST, LIST_SEEN_TAKE_NEXT, DONE, one stage at a
\* time: an <ol> before the s4 anchor changes nothing, the list is the first
\* <ol> after the anchor, the one value stored is the .string of the child
\* right after that list (its text when it is a text or an element that
\* wraps a single text, None when it is an element with several children or
\* with none), and once it is stored the scan has stopped and the value stays.
C12_ForwardScan == []C12_State /\ [][C12_Step]_vars

C12_Witness ==
    /\ pc = "scanned"
    /\ scanning.children = S4Markup("pt")
    /\ scanning.st.done
    /\ ListPos(scanning.children) = 2
    /\ scanning.pos = 3
    /\ Len(scanning.children[3].kids) = 3
    /\ scanning.st.value = None
    /\ get_text(scanning.children[3]) # None

====
